---- MODULE Spec2Model ----
(***************************************************************************)
(* A model of Pedlar (src/src/pedlar.ts): a registry that maps the id of   *)
(* a performed side effect to the destroyer the side effect returned, and  *)
(* the PedlarEffect handles that re-perform an effect when its dependency  *)
(* array has changed.                                                      *)
(*                                                                         *)
(* Every public method is one action.  The callbacks the caller supplies   *)
(* (the side effect, the destroyer) are inputs: a side effect returns any  *)
(* of the values of Returns or throws, a destroyer returns or throws.  An  *)
(* operation is therefore modelled by the set of states it can end in, one *)
(* for each way its callbacks can behave.  A destroyer calls back into the  *)
(* Pedlar when its handle has a script (SpecReentrant); no other callback  *)
(* does.                                                                   *)
(***************************************************************************)
EXTENDS Integers, Sequences, FiniteSets, TLC

VARIABLES
    destroyers,   \* Pedlar.destroyers: id -> stored value
    effects,      \* the PedlarEffect objects the caller holds: [id, dependencies]
    nextId,       \* the state of generateId(): the next id it hands out
    ran,          \* ran[h]: how often the side effect of handle h was invoked
    called,       \* called[c]: how often the stored destroyer c was invoked
    thrown,       \* how many callbacks have thrown
    dom,          \* dom.args[h]: the arguments of the addEvent call that made
                  \* handle h; dom.calls: the calls made on elements so far
    scripts       \* scripts[h]: the call into the Pedlar that the destroyers
                  \* of handle h make, for the handles whose destroyers do

vars == <<destroyers, effects, nextId, ran, called, thrown, dom, scripts>>

---------------------------------------------------------------------------
(* Bounds of the model *)

MaxHandles == 2   \* PedlarEffect objects the caller holds (Spec)
MaxRuns == 2      \* invocations of side effects, all handles together
MaxDeps == 2      \* longest dependency array (SpecOne)
MaxThrows == 1    \* callbacks that throw
MaxObjDeps == 1   \* longest dependency array that holds objects (SpecObjects)
MaxListeners == 3 \* handles, and runs of their side effects (SpecEvents)
MaxDepth == 2     \* destroyers the call stack holds, one inside the other
MaxCalls == 3     \* invocations of one destroyer (SpecReentrant)

---------------------------------------------------------------------------
(* Values *)

\* `id: null` of a PedlarEffect that never ran
NullId == 0

\* an id no generateId() call ever returned ('zach' in the tests)
UnknownId == -1

Undefined == [kind |-> "undefined"]
\* `ret` of an operation in which no side effect returned: none ran, or it threw
NoValue == [kind |-> "none"]
Raised == [kind |-> "raised"]

\* the function returned by the k-th run of the side effect of handle h
Destroyer(h, k) == [kind |-> "function", h |-> h, k |-> k]

\* the truthiness of a stored value: undefined and null are falsy, a function
\* and the number 4 are truthy
Truthy(v) == v.kind \in {"function", "number"}

\* what a side effect does when it is invoked: the kind of value it returns
\* (undefined, null, the number 4, a new function), or "throw"
Returns == {"undefined", "null", "number", "function", "throw"}

\* what a destroyer does when it is invoked
Behaviours == {"ok", "throw"}

\* dependency values: the numbers 1 and NaN and the string '1'
Num1 == [type |-> "number", val |-> "1"]
Str1 == [type |-> "string", val |-> "1"]
NaN == [type |-> "number", val |-> "NaN"]
DepVals == {Num1, Str1, NaN}

\* dependency values that are objects: `val` is the identity of the object
\* (the reference), `keys` what the object holds when the array is passed
Obj(ref, keys) == [type |-> "object", val |-> ref, keys |-> keys]
ObjA == Obj("o", "foo:bar")           \* let o = {foo: 'bar'}
ObjAMutated == Obj("o", "foo:baz")    \* o, after o.foo = 'baz'
ObjB == Obj("p", "foo:bar")           \* another {foo: 'bar'}
ObjectVals == {Num1, Str1, ObjA, ObjAMutated, ObjB}

\* a comparison by type and contents: of the keys of two objects, of the value
\* of two primitives
StructuralEquals(a, b) ==
    /\ a.type = b.type
    /\ IF a.type = "object" THEN a.keys = b.keys ELSE a.val = b.val

\* a === b
StrictEquals(a, b) == a.type = b.type /\ a.val = b.val /\ a # NaN

\* `dependencies?: D`: an array, or undefined
Absent == [present |-> FALSE, vals |-> <<>>]
Array(s) == [present |-> TRUE, vals |-> s]

Arrays(n) == UNION {[1..m -> DepVals] : m \in 0..n}

\* every dependency array up to MaxDeps elements, and none
Snapshots == {Absent} \cup {Array(s) : s \in Arrays(MaxDeps)}

\* every dependency array up to MaxObjDeps elements that are objects, 1 or '1'
ObjectSnapshots ==
    {Array(s) : s \in UNION {[1..m -> ObjectVals] : m \in 0..MaxObjDeps}}

\* the dependency arrays passed to a Pedlar with several effects: none and [1]
BasicSnapshots == {Absent, Array(<<Num1>>)}

---------------------------------------------------------------------------
(* The running state of one operation: the program's state, and of the    *)
(* operation itself the callbacks it has invoked so far (log), what the   *)
(* side effect returned (ret) and how the operation ended (outcome, error) *)

Begin ==
    [destroyers |-> destroyers, effects |-> effects, nextId |-> nextId,
     ran |-> ran, called |-> called, thrown |-> thrown, dom |-> dom,
     scripts |-> scripts, depth |-> 0, log |-> <<>>,
     ret |-> NoValue, outcome |-> "returned", error |-> "none"]

\* throw new Error(...) of Pedlar itself, or the TypeError of calling a value
\* that is no function
Throw(st, err) == [st EXCEPT !.outcome = "threw", !.error = err]

\* an exception of a callback that is caught and dropped
CallbackThrowSwallowed(st, err) == [st EXCEPT !.thrown = @ + 1]

\* an exception thrown by a callback of the caller
CallbackThrow(st, err) == [Throw(st, err) EXCEPT !.thrown = @ + 1]

\* this.destroyers[id]
Lookup(d, id) == IF id \in DOMAIN d THEN d[id] ELSE Undefined

\* this.destroyers[id] = v
Store(d, id, v) == [x \in DOMAIN d \cup {id} |-> IF x = id THEN v ELSE d[x]]

\* a delete that removes nothing
DeleteNothing(d, id) == d

\* a delete that empties the registry
DeleteAll(d, id) == <<>>

\* delete this.destroyers[id]
Delete(d, id) == [x \in DOMAIN d \ {id} |-> d[x]]

\* this.destroyers[id] = v, the registry and the record of the functions it
\* has held
Keep(st, id, v) ==
    [st EXCEPT !.destroyers = Store(@, id, v),
               !.called = IF v.kind = "function" THEN Store(@, v, 0) ELSE @]

\* generateId(): a string no earlier call returned
GenerateId(st) == st.nextId

\* sideEffect() of handle h, behaving as `ret` says
EffectResult(st, h, ret) ==
    LET k == st.ran[h] + 1
        s1 == [st EXCEPT !.ran[h] = k, !.log = Append(@, <<"effect", h, k>>)]
    IN CASE ret = "throw" ->
              CallbackThrow([s1 EXCEPT !.ret = Raised], "EffectError")
         [] ret = "function" -> [s1 EXCEPT !.ret = Destroyer(h, k)]
         [] OTHER -> [s1 EXCEPT !.ret = [kind |-> ret]]

\* the arguments of addEvent: an element (a mock, whose methods return), the
\* type of the event, the handler, and the options or undefined
EventArgs ==
    {[el |-> "button", eventType |-> "click", handler |-> "onClick",
      options |-> "undefined"],
     [el |-> "window", eventType |-> "zach", handler |-> "onZach",
      options |-> "iscool"]}

\* a call of a method of the element a.el with the three other arguments
ElementCall(method, a) == <<method, a.el, a.eventType, a.handler, a.options>>

\* the side effect of addCustomEvent for handle h:
\* el.addEventListener(eventType, handler, options), and the function returned
AddListener(st, h) ==
    LET k == st.ran[h] + 1
    IN [st EXCEPT !.ran[h] = k,
                  !.log = Append(@, <<"effect", h, k>>),
                  !.dom.calls = Append(@, ElementCall("addEventListener",
                                                      st.dom.args[h])),
                  !.ret = Destroyer(h, k)]

\* a destroyer that removes the listener without the options
RemoveListenerWithoutOptions(st, v) ==
    [st EXCEPT !.called[v] = @ + 1,
               !.log = Append(@, <<"cleanup", v.h, v.k>>),
               !.dom.calls = Append(@, ElementCall("removeEventListener",
                                 [st.dom.args[v.h] EXCEPT !.options = "undefined"]))]

\* the destroyer v that addCustomEvent returned:
\* el.removeEventListener(eventType, handler, options)
RemoveListener(st, v) ==
    [st EXCEPT !.called[v] = @ + 1,
               !.log = Append(@, <<"cleanup", v.h, v.k>>),
               !.dom.calls = Append(@, ElementCall("removeEventListener",
                                                   st.dom.args[v.h]))]

\* what a destroyer that calls back into the Pedlar does: destroy the id of
\* the handle `target` (its own handle or another), destroy its own id the
\* first time it is invoked only, destroyAll(), or perform a side effect
Scripts ==
    {[does |-> "destroy", target |-> t] : t \in 1..MaxHandles}
    \cup {[does |-> d, target |-> 0] : d \in {"destroySelfOnce", "destroyAll",
                                              "perform"}}

\* the side effect of a handle with a script: it returns a function
ScriptedEffect(st, h) == EffectResult(st, h, "function")

\* sideEffect(): the states the call can end in
InvokeEffect(st, h) ==
    IF h \in DOMAIN st.dom.args THEN {AddListener(st, h)}
    ELSE IF h \in DOMAIN st.scripts THEN {ScriptedEffect(st, h)}
    ELSE {EffectResult(st, h, ret) : ret \in Returns}

RECURSIVE PedlarPerform(_, _)
RECURSIVE PedlarDestroy(_, _)
RECURSIVE PedlarDestroyAll(_)

\* handle.id as a callback reads it
IdOf(st, h) == IF h \in DOMAIN st.effects THEN st.effects[h].id ELSE NullId

\* the destroyer v of a handle with a script: it makes its call into the
\* Pedlar and returns when that call returns; an exception of that call
\* leaves it as well.  The call stack has room for MaxDepth destroyers: a
\* call deeper than that is a RangeError (stack overflow).
ScriptedDestroyer(st, v) ==
    IF st.depth >= MaxDepth THEN {Throw(st, "RangeError")}
    ELSE LET s1 == [st EXCEPT !.called[v] = @ + 1,
                              !.log = Append(@, <<"cleanup", v.h, v.k>>),
                              !.depth = @ + 1]
             script == st.scripts[v.h]
             ends == CASE script.does = "destroy" ->
                             PedlarDestroy(s1, IdOf(s1, script.target))
                       [] script.does = "destroySelfOnce" ->
                             IF s1.called[v] = 1
                             THEN PedlarDestroy(s1, IdOf(s1, v.h))
                             ELSE {s1}
                       [] script.does = "destroyAll" -> PedlarDestroyAll(s1)
                       [] script.does = "perform" -> PedlarPerform(s1, Absent)
         IN {[s2 EXCEPT !.depth = st.depth] : s2 \in ends}

\* v(): calling a stored value; a value that is no function is a TypeError,
\* a function is invoked and returns or throws
InvokeDestroyer(st, v) ==
    IF v.kind # "function"
    THEN {Throw(st, "TypeError")}
    ELSE IF v.h \in DOMAIN st.dom.args THEN {RemoveListener(st, v)}
    ELSE IF v.h \in DOMAIN st.scripts THEN ScriptedDestroyer(st, v)
    ELSE LET s1 == [st EXCEPT !.called[v] = @ + 1,
                              !.log = Append(@, <<"cleanup", v.h, v.k>>)]
         IN {s1, CallbackThrow(s1, "DestroyerError")}

\* validateDestroyer: TRUE when it returns, FALSE when it throws
ValidateDestroyer(destroyer) == destroyer.kind = "function"

RECURSIVE ElementsDifferButLast(_, _, _)
\* the loop with `i < oldDependencies.length - 1`: the last element is skipped
ElementsDifferButLast(old, new, i) ==
    IF i >= Len(old) THEN FALSE
    ELSE IF StrictEquals(old[i], new[i]) THEN ElementsDifferButLast(old, new, i + 1)
    ELSE TRUE

RECURSIVE ElementsDiffer(_, _, _)
\* the loop of dependenciesChanged, from index i on
ElementsDiffer(old, new, i) ==
    IF i > Len(old) THEN FALSE
    ELSE IF StrictEquals(old[i], new[i]) THEN ElementsDiffer(old, new, i + 1)
    ELSE TRUE

\* dependenciesChanged comparing the arrays themselves (old !== new) instead
\* of their elements
DependenciesChangedByReference(oldDependencies, newDependencies) ==
    IF ~oldDependencies.present /\ ~newDependencies.present THEN "changed"
    ELSE IF ~oldDependencies.present \/ ~newDependencies.present
         THEN "InconsistentDependencyUsage"
    ELSE IF Len(oldDependencies.vals) # Len(newDependencies.vals)
         THEN "DependencyArityMismatch"
    ELSE "changed"

\* dependenciesChanged testing the arrays as if an empty array were falsy
DependenciesChangedEmptyIsFalsy(oldDependencies, newDependencies) ==
    LET Falsy(d) == ~d.present \/ Len(d.vals) = 0
    IN IF Falsy(oldDependencies) /\ Falsy(newDependencies) THEN "changed"
       ELSE IF Falsy(oldDependencies) \/ Falsy(newDependencies)
            THEN "InconsistentDependencyUsage"
       ELSE IF Len(oldDependencies.vals) # Len(newDependencies.vals)
            THEN "DependencyArityMismatch"
       ELSE IF ElementsDiffer(oldDependencies.vals, newDependencies.vals, 1)
            THEN "changed"
       ELSE "same"

\* dependenciesChanged without the check that both or neither are passed
DependenciesChangedAnyUsage(oldDependencies, newDependencies) ==
    IF ~oldDependencies.present \/ ~newDependencies.present THEN "changed"
    ELSE IF Len(oldDependencies.vals) # Len(newDependencies.vals)
         THEN "DependencyArityMismatch"
    ELSE IF ElementsDiffer(oldDependencies.vals, newDependencies.vals, 1)
         THEN "changed"
    ELSE "same"

\* dependenciesChanged without the check of the lengths
DependenciesChangedAnyLength(oldDependencies, newDependencies) ==
    IF ~oldDependencies.present /\ ~newDependencies.present THEN "changed"
    ELSE IF ~oldDependencies.present \/ ~newDependencies.present
         THEN "InconsistentDependencyUsage"
    ELSE IF Len(oldDependencies.vals) # Len(newDependencies.vals)
         THEN "changed"
    ELSE IF ElementsDiffer(oldDependencies.vals, newDependencies.vals, 1)
         THEN "changed"
    ELSE "same"

\* dependenciesChanged: "changed", "same", or the error it throws
DependenciesChanged(oldDependencies, newDependencies) ==
    IF ~oldDependencies.present /\ ~newDependencies.present THEN "changed"
    ELSE IF ~oldDependencies.present \/ ~newDependencies.present
         THEN "InconsistentDependencyUsage"
    ELSE IF Len(oldDependencies.vals) # Len(newDependencies.vals)
         THEN "DependencyArityMismatch"
    ELSE IF ElementsDiffer(oldDependencies.vals, newDependencies.vals, 1)
         THEN "changed"
    ELSE "same"

\* the neverRan branch validating the destroyer and not storing it
KeepDestroyerDropped(st, id) ==
    IF st.ret.kind \notin {"undefined", "null"} /\ ~ValidateDestroyer(st.ret)
    THEN Throw(st, "InvalidEffectReturn")
    ELSE st

\* the neverRan branch storing undefined and null as well
KeepDestroyerAlways(st, id) ==
    IF st.ret.kind \in {"undefined", "null"} \/ ValidateDestroyer(st.ret)
    THEN Keep(st, id, st.ret)
    ELSE Throw(st, "InvalidEffectReturn")

\* the neverRan branch after sideEffect() returned: validate and store
KeepDestroyer(st, id) ==
    IF st.ret.kind \notin {"undefined", "null"}
    THEN IF ValidateDestroyer(st.ret)
         THEN Keep(st, id, st.ret)
         ELSE Throw(st, "InvalidEffectReturn")
    ELSE st

\* PedlarEffect.perform, the neverRan branch
FirstRun(st, h, currentDependencies) ==
    LET id == GenerateId(st)
        s1 == [st EXCEPT !.effects[h] = [id |-> id,
                                         dependencies |-> currentDependencies],
                         !.nextId = @ + 1]
    IN {IF s2.outcome = "threw" THEN s2 ELSE KeepDestroyer(s2, id) :
            s2 \in InvokeEffect(s1, h)}

\* a re-run that takes a new id for the handle and stores under it
RunAgainUnderNewId(st, h, id) ==
    LET new == GenerateId(st)
        s1 == [st EXCEPT !.effects[h].id = new, !.nextId = @ + 1]
    IN {IF s3.outcome = "threw" THEN s3
        ELSE Keep(s3, new, s3.ret) :
            s3 \in InvokeEffect(s1, h)}

\* a re-run that drops what the side effect returns and keeps the old entry
RunAgainKeepsOld(st, h, id) == InvokeEffect(st, h)

\* a re-run that removes the entry of the id when the side effect throws
RunAgainDeletesOnThrow(st, h, id) ==
    {IF s3.outcome = "threw" THEN [s3 EXCEPT !.destroyers = Delete(@, id)]
     ELSE Keep(s3, id, s3.ret) :
         s3 \in InvokeEffect(st, h)}

\* the else branch once the old destroyer returned: run the effect again and
\* store what it returns
RunAgain(st, h, id) ==
    {IF s3.outcome = "threw" THEN s3
     ELSE Keep(s3, id, s3.ret) :
         s3 \in InvokeEffect(st, h)}

\* the else branch running the side effect before the old destroyer
ReRunEffectFirst(st, h, currentDependencies) ==
    LET eff == st.effects[h]
        changed == DependenciesChanged(eff.dependencies, currentDependencies)
    IN IF changed \notin {"changed", "same"} THEN {Throw(st, changed)}
       ELSE IF changed = "same" THEN {st}
       ELSE LET s1 == [st EXCEPT !.effects[h].dependencies = currentDependencies]
                currentDestroyer == Lookup(s1.destroyers, eff.id)
            IN IF Truthy(currentDestroyer)
               THEN UNION {IF s2.outcome = "threw" THEN {s2}
                           ELSE {IF s3.outcome = "threw" THEN s3
                                 ELSE Keep(s3, eff.id, s2.ret) :
                                     s3 \in InvokeDestroyer(s2, currentDestroyer)} :
                               s2 \in InvokeEffect(s1, h)}
               ELSE InvokeEffect(s1, h)

\* the else branch with `this.dependencies = currentDependencies` before the
\* comparison
ReRunStoresSnapshotFirst(st, h, currentDependencies) ==
    LET eff == st.effects[h]
        changed == DependenciesChanged(eff.dependencies, currentDependencies)
        s1 == [st EXCEPT !.effects[h].dependencies = currentDependencies]
    IN IF changed \notin {"changed", "same"} THEN {Throw(s1, changed)}
       ELSE IF changed = "same" THEN {s1}
       ELSE LET currentDestroyer == Lookup(s1.destroyers, eff.id)
            IN IF Truthy(currentDestroyer)
               THEN UNION {IF s2.outcome = "threw" THEN {s2}
                           ELSE RunAgain(s2, h, eff.id) :
                               s2 \in InvokeDestroyer(s1, currentDestroyer)}
               ELSE InvokeEffect(s1, h)

\* the else branch without `this.dependencies = currentDependencies`
ReRunKeepsSnapshot(st, h, currentDependencies) ==
    LET eff == st.effects[h]
        changed == DependenciesChanged(eff.dependencies, currentDependencies)
    IN IF changed \notin {"changed", "same"} THEN {Throw(st, changed)}
       ELSE IF changed = "same" THEN {st}
       ELSE LET currentDestroyer == Lookup(st.destroyers, eff.id)
            IN IF Truthy(currentDestroyer)
               THEN UNION {IF s2.outcome = "threw" THEN {s2}
                           ELSE RunAgain(s2, h, eff.id) :
                               s2 \in InvokeDestroyer(st, currentDestroyer)}
               ELSE InvokeEffect(st, h)

\* the else branch storing what the side effect returns also when the id has
\* no destroyer
ReRunStoresAlways(st, h, currentDependencies) ==
    LET eff == st.effects[h]
        changed == DependenciesChanged(eff.dependencies, currentDependencies)
    IN IF changed \notin {"changed", "same"} THEN {Throw(st, changed)}
       ELSE IF changed = "same" THEN {st}
       ELSE LET s1 == [st EXCEPT !.effects[h].dependencies = currentDependencies]
                currentDestroyer == Lookup(s1.destroyers, eff.id)
            IN IF Truthy(currentDestroyer)
               THEN UNION {IF s2.outcome = "threw" THEN {s2}
                           ELSE RunAgain(s2, h, eff.id) :
                               s2 \in InvokeDestroyer(s1, currentDestroyer)}
               ELSE RunAgain(s1, h, eff.id)

\* the else branch with `this.dependencies = currentDependencies` as its last
\* statement, reached when the callbacks have returned
ReRunStoresSnapshotLast(st, h, currentDependencies) ==
    {IF s9.outcome = "threw" THEN s9
     ELSE [s9 EXCEPT !.effects[h].dependencies = currentDependencies] :
         s9 \in ReRunKeepsSnapshot(st, h, currentDependencies)}

\* PedlarEffect.perform, the else branch: the effect has an id
ReRun(st, h, currentDependencies) ==
    LET eff == st.effects[h]
        changed == DependenciesChanged(eff.dependencies, currentDependencies)
    IN IF changed \notin {"changed", "same"} THEN {Throw(st, changed)}
       ELSE IF changed = "same" THEN {st}
       ELSE LET s1 == [st EXCEPT !.effects[h].dependencies = currentDependencies]
                currentDestroyer == Lookup(s1.destroyers, eff.id)
            IN IF Truthy(currentDestroyer)
               THEN UNION {IF s2.outcome = "threw" THEN {s2}
                           ELSE RunAgain(s2, h, eff.id) :
                               s2 \in InvokeDestroyer(s1, currentDestroyer)}
               ELSE InvokeEffect(s1, h)

\* perform that compares the dependencies on the first run as well
EffectPerformAlwaysCompares(st, h, currentDependencies) ==
    ReRun(st, h, currentDependencies)

\* PedlarEffect.perform(currentDependencies)
EffectPerform(st, h, currentDependencies) ==
    IF st.effects[h].id = NullId
    THEN FirstRun(st, h, currentDependencies)
    ELSE ReRun(st, h, currentDependencies)

\* Pedlar.create(sideEffect): a new PedlarEffect, not run
PedlarCreate(st) ==
    [st EXCEPT !.effects = Append(@, [id |-> NullId, dependencies |-> Absent]),
               !.ran = Append(@, 0)]

\* Pedlar.perform that calls effect.perform() without the dependencies
PedlarPerformWithoutDependencies(st, dependencies) ==
    LET s1 == PedlarCreate(st)
        h == Len(s1.effects)
    IN {IF s2.outcome = "threw"
        THEN [s2 EXCEPT !.effects = SubSeq(@, 1, h - 1),
                        !.ran = SubSeq(@, 1, h - 1)]
        ELSE s2 :
            s2 \in EffectPerform(s1, h, Absent)}

\* Pedlar.perform(sideEffect, dependencies): when effect.perform throws, the
\* caller gets no PedlarEffect
PedlarPerform(st, dependencies) ==
    LET s1 == PedlarCreate(st)
        h == Len(s1.effects)
    IN {IF s2.outcome = "threw"
        THEN [s2 EXCEPT !.effects = SubSeq(@, 1, h - 1),
                        !.ran = SubSeq(@, 1, h - 1)]
        ELSE s2 :
            s2 \in EffectPerform(s1, h, dependencies)}

\* Pedlar.perform(sideEffect) for a side effect whose destroyers follow the
\* script
PedlarPerformScripted(st, script) ==
    PedlarPerform([st EXCEPT !.scripts = Store(@, Len(st.effects) + 1, script)],
                  Absent)

\* Pedlar.addCustomEvent(el, eventType, handler, options): perform, without
\* dependencies, the side effect that adds the listener
PedlarAddCustomEvent(st, args) ==
    PedlarPerform([st EXCEPT !.dom.args = Store(@, Len(st.effects) + 1, args)],
                  Absent)

\* Pedlar.addEvent(el, eventType, handler, options):
\* this.addCustomEvent.call(this, ...arguments)
PedlarAddEvent(st, args) == PedlarAddCustomEvent(st, args)

\* destroy(id) that calls the destroyer and keeps the entry
PedlarDestroyNoDelete(st, id) ==
    LET destroyer == Lookup(st.destroyers, id)
    IN IF ~Truthy(destroyer) THEN {st}
       ELSE InvokeDestroyer(st, destroyer)

\* destroy(id) that calls whatever it finds under id
PedlarDestroyUnchecked(st, id) ==
    LET destroyer == Lookup(st.destroyers, id)
    IN {IF s1.outcome = "threw" THEN s1
        ELSE [s1 EXCEPT !.destroyers = Delete(@, id)] :
            s1 \in InvokeDestroyer(st, destroyer)}

\* destroy(id) with the delete before the call of the destroyer
PedlarDestroyDeletesFirst(st, id) ==
    LET destroyer == Lookup(st.destroyers, id)
    IN IF ~Truthy(destroyer) THEN {st}
       ELSE InvokeDestroyer([st EXCEPT !.destroyers = Delete(@, id)],
                            destroyer)

\* destroy(id) that deletes the entry also when the destroyer throws
PedlarDestroyDeletesAlways(st, id) ==
    LET destroyer == Lookup(st.destroyers, id)
    IN IF ~Truthy(destroyer) THEN {st}
       ELSE {[s1 EXCEPT !.destroyers = Delete(@, id)] :
                 s1 \in InvokeDestroyer(st, destroyer)}

\* Pedlar.destroy(id)
PedlarDestroy(st, id) ==
    LET destroyer == Lookup(st.destroyers, id)
    IN IF ~Truthy(destroyer) THEN {st}
       ELSE {IF s1.outcome = "threw" THEN s1
             ELSE [s1 EXCEPT !.destroyers = Delete(@, id)] :
                 s1 \in InvokeDestroyer(st, destroyer)}

RECURSIVE ForEachDestroyContinues(_, _)
\* a loop that goes on to the next key when a call of destroy throws
ForEachDestroyContinues(st, keys) ==
    IF keys = {} THEN {st}
    ELSE UNION {UNION {ForEachDestroyContinues(s1, keys \ {id}) :
                           s1 \in PedlarDestroy(st, id)} :
                    id \in keys}

\* a loop that destroys the first key only
ForEachDestroyFirstOnly(st, keys) ==
    IF keys = {} THEN {st}
    ELSE UNION {PedlarDestroy(st, id) : id \in keys}

RECURSIVE ForEachDestroy(_, _)
\* keys.forEach(this.destroy, this), for the keys still to visit, in any
\* order: the first call that throws ends the loop
ForEachDestroy(st, keys) ==
    IF keys = {} THEN {st}
    ELSE UNION {UNION {IF s1.outcome = "threw" THEN {s1}
                       ELSE ForEachDestroy(s1, keys \ {id}) :
                           s1 \in PedlarDestroy(st, id)} :
                    id \in keys}

\* destroyAll() that invokes the destroyers and keeps the entries
PedlarDestroyAllKeepsEntries(st) ==
    {[s1 EXCEPT !.destroyers = st.destroyers] :
         s1 \in ForEachDestroy(st, DOMAIN st.destroyers)}

\* destroyAll() that goes on with the keys it finds after a pass
PedlarDestroyAllLiveKeys(st) ==
    UNION {IF s1.outcome = "threw" THEN {s1}
           ELSE ForEachDestroy(s1, DOMAIN s1.destroyers) :
               s1 \in ForEachDestroy(st, DOMAIN st.destroyers)}

\* Pedlar.destroyAll()
PedlarDestroyAll(st) == ForEachDestroy(st, DOMAIN st.destroyers)

---------------------------------------------------------------------------
(* The bounds, as a condition on the state an operation leaves *)

RECURSIVE SumSeq(_)
SumSeq(s) == IF s = <<>> THEN 0 ELSE Head(s) + SumSeq(Tail(s))

\* side effect invocations so far; a perform() that threw left no handle
\* behind, but took an id
TotalRuns(st) ==
    SumSeq(st.ran)
    + (st.nextId - 1
       - Cardinality({h \in DOMAIN st.effects : st.effects[h].id # NullId}))

Within(st, maxHandles, maxRuns) ==
    /\ Len(st.effects) <= maxHandles
    /\ TotalRuns(st) <= maxRuns
    /\ st.thrown <= MaxThrows

Commit(st, maxHandles, maxRuns) ==
    /\ Within(st, maxHandles, maxRuns)
    /\ destroyers' = st.destroyers
    /\ effects' = st.effects
    /\ nextId' = st.nextId
    /\ ran' = st.ran
    /\ called' = st.called
    /\ thrown' = st.thrown
    /\ dom' = st.dom
    /\ scripts' = st.scripts

-------------------------------------------------------------------------------------------------------------------------------------------------
(* The operations.  S is the set of dependency arrays the caller passes,  *)
(* n the number of PedlarEffect objects it may hold, r the number of side *)
(* effect invocations.                                                    *)

Init ==
    /\ destroyers = <<>>
    /\ effects = <<>>
    /\ nextId = 1
    /\ ran = <<>>
    /\ called = <<>>
    /\ thrown = 0
    /\ dom = [args |-> <<>>, calls |-> <<>>]
    /\ scripts = <<>>

CreateOp(n, r) == Commit(PedlarCreate(Begin), n, r)

PerformOp(S, n, r) ==
    \E deps \in S :
        \E st \in PedlarPerform(Begin, deps) : Commit(st, n, r)

HandlePerformOp(S, n, r) ==
    \E h \in DOMAIN effects, deps \in S :
        \E st \in EffectPerform(Begin, h, deps) : Commit(st, n, r)

\* the ids a caller passes to destroy(): every id handed out, the null id of
\* a handle that never ran, and an id never handed out
DestroyIds == (1..(nextId - 1)) \cup {NullId, UnknownId}

DestroyOp(n, r) ==
    \E id \in DestroyIds :
        \E st \in PedlarDestroy(Begin, id) : Commit(st, n, r)

DestroyAllOp(n, r) ==
    \E st \in PedlarDestroyAll(Begin) : Commit(st, n, r)

\* a Pedlar with several effects
Create == CreateOp(MaxHandles, MaxRuns)
Perform == PerformOp(BasicSnapshots, MaxHandles, MaxRuns)
HandlePerform == HandlePerformOp(BasicSnapshots, MaxHandles, MaxRuns)
Destroy == DestroyOp(MaxHandles, MaxRuns)
DestroyAll == DestroyAllOp(MaxHandles, MaxRuns)

Next == Create \/ Perform \/ HandlePerform \/ Destroy \/ DestroyAll

Spec == Init /\ [][Next]_vars

\* a Pedlar with one effect, passed every dependency array
CreateOne == CreateOp(1, MaxRuns)
PerformOne == PerformOp(Snapshots, 1, MaxRuns)
HandlePerformOne == HandlePerformOp(Snapshots, 1, MaxRuns)
DestroyOne == DestroyOp(1, MaxRuns)
DestroyAllOne == DestroyAllOp(1, MaxRuns)

NextOne ==
    CreateOne \/ PerformOne \/ HandlePerformOne \/ DestroyOne \/ DestroyAllOne

SpecOne == Init /\ [][NextOne]_vars

\* a Pedlar with one effect, passed dependency arrays that hold objects
PerformObjects == PerformOp(ObjectSnapshots, 1, MaxRuns)
HandlePerformObjects == HandlePerformOp(ObjectSnapshots, 1, MaxRuns)

NextObjects == CreateOne \/ PerformObjects \/ HandlePerformObjects \/ DestroyOne

SpecObjects == Init /\ [][NextObjects]_vars

\* a Pedlar whose effects are event listeners
AddEvent ==
    \E args \in EventArgs :
        \E st \in PedlarAddEvent(Begin, args) :
            Commit(st, MaxListeners, MaxListeners)

AddCustomEvent ==
    \E args \in EventArgs :
        \E st \in PedlarAddCustomEvent(Begin, args) :
            Commit(st, MaxListeners, MaxListeners)

HandlePerformEvents == HandlePerformOp({Absent}, MaxListeners, MaxListeners)
DestroyEvents == DestroyOp(MaxListeners, MaxListeners)
DestroyAllEvents == DestroyAllOp(MaxListeners, MaxListeners)

NextEvents ==
    \/ AddEvent
    \/ AddCustomEvent
    \/ HandlePerformEvents
    \/ DestroyEvents
    \/ DestroyAllEvents

SpecEvents == Init /\ [][NextEvents]_vars

\* a Pedlar whose effects return destroyers that call back into it; a
\* destroyer that throws keeps its entry, so its invocations are bounded
WithinCalls(st) == \A c \in DOMAIN st.called : st.called[c] <= MaxCalls

CommitReentrant(st) == WithinCalls(st) /\ Commit(st, MaxHandles, MaxRuns)

PerformScripted ==
    \E script \in Scripts :
        \E st \in PedlarPerformScripted(Begin, script) : CommitReentrant(st)

PerformPlain ==
    \E st \in PedlarPerform(Begin, Absent) : CommitReentrant(st)

HandlePerformReentrant ==
    \E h \in DOMAIN effects :
        \E st \in EffectPerform(Begin, h, Absent) : CommitReentrant(st)

DestroyReentrant ==
    \E id \in DestroyIds :
        \E st \in PedlarDestroy(Begin, id) : CommitReentrant(st)

DestroyAllReentrant ==
    \E st \in PedlarDestroyAll(Begin) : CommitReentrant(st)

NextReentrant ==
    \/ PerformScripted
    \/ PerformPlain
    \/ HandlePerformReentrant
    \/ DestroyReentrant
    \/ DestroyAllReentrant

SpecReentrant == Init /\ [][NextReentrant]_vars

---------------------------------------------------------------------------
(* What an operation did, read from the state it ends in *)

\* the entries of the log that are invocations of a side effect
EffectRuns(st) == {i \in DOMAIN st.log : st.log[i][1] = "effect"}

\* the entries of the log that are invocations of the destroyer c
DestroyerCalls(st, c) ==
    {i \in DOMAIN st.log : st.log[i] = <<"cleanup", c.h, c.k>>}

\* the destroyer c is a value of the registry
Stored(c) == \E id \in DOMAIN destroyers : destroyers[id] = c

\* the handles that have run
HasRun(h) == effects[h].id # NullId

---------------------------------------------------------------------------
(* Pedlar.perform *)

\* C1: in every reachable state, with or without a dependency array, a call
\* of Pedlar.perform invokes the side effect of the new handle exactly once and
\* invokes nothing else (whether the call returns or throws); when it returns
\* and the side effect returned a function, that function is stored under the
\* id of the returned handle, which is a fresh id, and has not been invoked.
C1_PerformRunsEffectOnceAndStoresDestroyer ==
    \A deps \in BasicSnapshots :
        \A st \in PedlarPerform(Begin, deps) :
            LET h == Len(effects) + 1
            IN /\ st.log = <<(<<"effect", h, 1>>)>>
               /\ st.outcome = "returned" =>
                    /\ Len(st.effects) = h
                    /\ st.effects[h].id = nextId
                    /\ st.effects[h].id \notin DOMAIN destroyers
                    /\ st.ran[h] = 1
                    /\ st.ret.kind = "function" =>
                         /\ st.ret = Destroyer(h, 1)
                         /\ st.effects[h].id \in DOMAIN st.destroyers
                         /\ st.destroyers[st.effects[h].id] = st.ret
                         /\ st.called[st.ret] = 0

\* a handle that ran once, whose destroyer is stored under its id and was
\* never invoked
C1_Witness ==
    \E h \in DOMAIN effects :
        /\ HasRun(h)
        /\ ran[h] = 1
        /\ effects[h].id \in DOMAIN destroyers
        /\ destroyers[effects[h].id] = Destroyer(h, 1)
        /\ called[Destroyer(h, 1)] = 0

---------------------------------------------------------------------------
(* Pedlar.destroy *)

\* C2: in every reachable state, destroy(id) for an id whose entry is a
\* function invokes that function exactly once and nothing else, and when
\* destroy returns the registry has no entry for id.
C2_DestroyInvokesStoredDestroyerOnce ==
    \A id \in DOMAIN destroyers :
        destroyers[id].kind = "function" =>
            \A st \in PedlarDestroy(Begin, id) :
                /\ st.log = <<(<<"cleanup", destroyers[id].h, destroyers[id].k>>)>>
                /\ st.called[destroyers[id]] = called[destroyers[id]] + 1
                /\ st.outcome = "returned" => id \notin DOMAIN st.destroyers

\* an effect that ran once and was destroyed: its destroyer was invoked once
\* and its id has no entry
C2_Witness ==
    \E h \in DOMAIN effects :
        /\ HasRun(h)
        /\ ran[h] = 1
        /\ thrown = 0
        /\ effects[h].id \notin DOMAIN destroyers
        /\ Destroyer(h, 1) \in DOMAIN called
        /\ called[Destroyer(h, 1)] = 1

---------------------------------------------------------------------------
(* Pedlar.destroyAll *)

\* C3: in every reachable state, a destroyAll() that returns has invoked the
\* destroyer of every id that had one when it was called exactly once, in
\* whatever order the keys were listed, and has invoked nothing else.
C3_DestroyAllInvokesEveryDestroyerOnce ==
    \A st \in PedlarDestroyAll(Begin) :
        st.outcome = "returned" =>
            /\ \A id \in DOMAIN destroyers :
                 destroyers[id].kind = "function" =>
                    /\ Cardinality(DestroyerCalls(st, destroyers[id])) = 1
                    /\ st.called[destroyers[id]] = called[destroyers[id]] + 1
            /\ EffectRuns(st) = {}
            /\ Len(st.log) =
                 Cardinality({id \in DOMAIN destroyers :
                                 destroyers[id].kind = "function"})

\* two effects, both destroyed: each destroyer was invoked once
C3_Witness ==
    /\ thrown = 0
    /\ destroyers = <<>>
    /\ \E h1, h2 \in DOMAIN effects :
        /\ h1 # h2
        /\ \A h \in {h1, h2} :
            /\ HasRun(h)
            /\ Destroyer(h, 1) \in DOMAIN called
            /\ called[Destroyer(h, 1)] = 1

\* C4, as claimed: whenever destroyAll() returns, the registry has no keys.
C4_DestroyAllLeavesRegistryEmpty ==
    \A st \in PedlarDestroyAll(Begin) :
        st.outcome = "returned" => DOMAIN st.destroyers = {}

---------------------------------------------------------------------------
(* destroy and destroyAll together *)

\* C5: for every destroyer the registry has held, as long as no callback has
\* thrown: it has been invoked once if it is no longer stored and never if it
\* still is; with or without throws, destroy(id) of the id it is stored under
\* invokes it once, and once it is no longer stored no destroy(id), for any
\* id, and no destroyAll() invokes it again.
C5_DestroyerInvokedOnceAcrossDestroys ==
    LET afterDestroy == [id \in DestroyIds |-> PedlarDestroy(Begin, id)]
        afterDestroyAll == PedlarDestroyAll(Begin)
    IN \A c \in DOMAIN called :
        /\ thrown = 0 => called[c] = (IF Stored(c) THEN 0 ELSE 1)
        /\ \A id \in DOMAIN destroyers :
             destroyers[id] = c =>
                \A st \in afterDestroy[id] : st.called[c] = called[c] + 1
        /\ ~Stored(c) =>
             /\ \A id \in DestroyIds :
                  \A st \in afterDestroy[id] : st.called[c] = called[c]
             /\ \A st \in afterDestroyAll : st.called[c] = called[c]

\* a destroyer that destroy or destroyAll invoked once and removed, while
\* another effect is still registered
C5_Witness ==
    \E h \in DOMAIN effects :
        /\ HasRun(h)
        /\ ran[h] = 1
        /\ thrown = 0
        /\ Destroyer(h, 1) \in DOMAIN called
        /\ called[Destroyer(h, 1)] = 1
        /\ ~Stored(Destroyer(h, 1))
        /\ DOMAIN destroyers # {}

\* C6: in every reachable state, destroy(id) for an id that has no entry (the
\* id of a destroyed effect, of a handle that never ran, or one never handed
\* out) returns without invoking anything and leaves every part of the state
\* as it was; and after a destroy(id) that returned, for any id, a second
\* destroy(id) returns and changes nothing.
C6_DestroyUnknownIdIsNoOp ==
    /\ \A id \in DestroyIds \cup {nextId} :
         id \notin DOMAIN destroyers => PedlarDestroy(Begin, id) = {Begin}
    /\ \A id \in DestroyIds :
         \A st \in PedlarDestroy(Begin, id) :
             st.outcome = "returned" => PedlarDestroy(st, id) = {st}

\* an id that was handed out and destroyed, so that it has no entry any more
C6_Witness ==
    \E h \in DOMAIN effects :
        /\ HasRun(h)
        /\ effects[h].id \notin DOMAIN destroyers
        /\ Destroyer(h, 1) \in DOMAIN called
        /\ called[Destroyer(h, 1)] = 1
        /\ ran[h] = 1

\* C7: in every reachable state, destroy(id) leaves the entry of every other
\* id as it was and invokes no destroyer but the one stored under id; the
\* handles are unchanged.
C7_DestroyLeavesOtherEffectsAlone ==
    \A id \in DestroyIds :
        \A st \in PedlarDestroy(Begin, id) :
            /\ \A other \in DOMAIN destroyers \ {id} :
                 /\ other \in DOMAIN st.destroyers
                 /\ st.destroyers[other] = destroyers[other]
            /\ DOMAIN st.destroyers \subseteq DOMAIN destroyers
            /\ \A c \in DOMAIN called :
                 (id \notin DOMAIN destroyers \/ destroyers[id] # c) =>
                    st.called[c] = called[c]
            /\ EffectRuns(st) = {}
            /\ st.effects = effects

\* two effects that ran: one was destroyed, the other is registered and its
\* destroyer was never invoked
C7_Witness ==
    \E h1, h2 \in DOMAIN effects :
        /\ h1 # h2
        /\ HasRun(h1) /\ HasRun(h2)
        /\ effects[h1].id \notin DOMAIN destroyers
        /\ Destroyer(h1, 1) \in DOMAIN called
        /\ called[Destroyer(h1, 1)] = 1
        /\ effects[h2].id \in DOMAIN destroyers
        /\ destroyers[effects[h2].id] = Destroyer(h2, 1)
        /\ called[Destroyer(h2, 1)] = 0

---------------------------------------------------------------------------
(* PedlarEffect.perform on a handle that has run *)

\* every element of the array `new` is strictly equal to the element of `old`
\* at the same index
AllStrictlyEqual(old, new) ==
    \A i \in DOMAIN old : old[i].type = new[i].type /\ old[i].val = new[i].val
                          /\ old[i].val # "NaN"

SameLength(old, new) ==
    old.present /\ new.present /\ Len(old.vals) = Len(new.vals)

\* C8: in every reachable state, for a handle that has run with a dependency
\* array, perform(deps) with an array of the same length whose elements are
\* all strictly equal to the stored ones returns without invoking the side
\* effect or a destroyer and leaves the state (registry, handle) as it was.
C8_SameDependenciesDoNothing ==
    \A h \in DOMAIN effects :
        HasRun(h) =>
            \A deps \in Snapshots :
                (/\ SameLength(effects[h].dependencies, deps)
                 /\ AllStrictlyEqual(effects[h].dependencies.vals, deps.vals))
                => EffectPerform(Begin, h, deps) = {Begin}

\* a handle that ran once with an array of two elements, none of them NaN,
\* and owns a destroyer
C8_Witness ==
    \E h \in DOMAIN effects :
        /\ HasRun(h)
        /\ ran[h] = 1
        /\ effects[h].dependencies = Array(<<Num1, Str1>>)
        /\ effects[h].id \in DOMAIN destroyers
        /\ destroyers[effects[h].id] = Destroyer(h, 1)
        /\ called[Destroyer(h, 1)] = 0

C10_RerunCallsDestroyerThenEffect ==
    \A h \in DOMAIN effects :
        (HasRun(h) /\ Lookup(destroyers, effects[h].id).kind = "function") =>
            LET id == effects[h].id
                c == destroyers[id]
                old == <<"cleanup", c.h, c.k>>
                new == <<"effect", h, ran[h] + 1>>
            IN /\ \A deps \in Snapshots :
                    \A st \in EffectPerform(Begin, h, deps) :
                        /\ st.log \in {<<>>, <<old>>, <<old, new>>}
                        /\ st.log = <<old>> => st.outcome = "threw"
                        /\ (st.log = <<old, new>> /\ st.outcome = "returned") =>
                             /\ st.effects[h].id = id
                             /\ st.called[c] = called[c] + 1
                             /\ DOMAIN st.destroyers = DOMAIN destroyers
                             /\ st.destroyers[id] = st.ret
                             /\ st.ret.kind = "function" =>
                                  /\ st.ret = Destroyer(h, ran[h] + 1)
                                  /\ st.called[st.ret] = 0
               /\ thrown = 0 =>
                    /\ c = Destroyer(h, ran[h])
                    /\ \A j \in 1..(ran[h] - 1) :
                         /\ Destroyer(h, j) \in DOMAIN called
                         /\ called[Destroyer(h, j)] = 1

\* a handle that re-ran with a changed array: MaxRuns runs, the destroyers of
\* the earlier runs invoked once each, the one of the last run stored and not
\* invoked
C10_Witness ==
    \E h \in DOMAIN effects :
        /\ HasRun(h)
        /\ ran[h] = MaxRuns
        /\ thrown = 0
        /\ effects[h].dependencies.present
        /\ effects[h].id \in DOMAIN destroyers
        /\ destroyers[effects[h].id] = Destroyer(h, MaxRuns)
        /\ \A j \in 1..MaxRuns : Destroyer(h, j) \in DOMAIN called
        /\ \A j \in 1..(MaxRuns - 1) : called[Destroyer(h, j)] = 1
        /\ called[Destroyer(h, MaxRuns)] = 0

---------------------------------------------------------------------------
(* PedlarEffect.perform and the shape of the dependency array *)

\* C11, as claimed: in every reachable state, for a handle that has run and
\* whose stored dependencies are undefined, perform() without an array invokes
\* the side effect exactly once, unless a destroyer of the caller threw before
\* the side effect was reached.
C11_NoDependenciesAlwaysRerun ==
    \A h \in DOMAIN effects :
        (HasRun(h) /\ ~effects[h].dependencies.present) =>
            \A st \in EffectPerform(Begin, h, Absent) :
                \/ Cardinality(EffectRuns(st)) = 1
                \/ st.outcome = "threw" /\ st.error = "DestroyerError"

\* C12: in every reachable state, for a handle that has run, perform(deps)
\* with an array when none is stored, or without an array when one is stored,
\* throws the error of inconsistent usage without invoking a callback and
\* leaves the state as it was.
C12_InconsistentUsageThrows ==
    \A h \in DOMAIN effects :
        HasRun(h) =>
            \A deps \in Snapshots :
                effects[h].dependencies.present # deps.present =>
                    EffectPerform(Begin, h, deps)
                        = {Throw(Begin, "InconsistentDependencyUsage")}

\* a handle that ran and re-ran with an array, to which perform() without an
\* array can be applied
C12_Witness ==
    \E h \in DOMAIN effects :
        /\ HasRun(h)
        /\ ran[h] = 2
        /\ thrown = 0
        /\ effects[h].dependencies = Array(<<Str1>>)

\* C13: in every reachable state, for a handle that has run with an array,
\* perform(deps) with an array of another length throws the error of
\* mismatched lengths, whatever the elements are, without invoking a callback
\* and leaves the state as it was.
C13_ArityMismatchThrows ==
    \A h \in DOMAIN effects :
        HasRun(h) =>
            \A deps \in Snapshots :
                (/\ effects[h].dependencies.present
                 /\ deps.present
                 /\ Len(effects[h].dependencies.vals) # Len(deps.vals))
                => EffectPerform(Begin, h, deps)
                       = {Throw(Begin, "DependencyArityMismatch")}

\* a handle that ran and re-ran with an array of two elements: [1] is a
\* shorter array whose element equals the stored one
C13_Witness ==
    \E h \in DOMAIN effects :
        /\ HasRun(h)
        /\ ran[h] = 2
        /\ thrown = 0
        /\ effects[h].dependencies = Array(<<Num1, Num1>>)

\* the elements of `old` and `new` at index i have the same type and, being
\* objects, are the same object or, being primitives, the same value
SameIdentity(old, new, i) ==
    old[i].type = new[i].type /\ old[i].val = new[i].val

\* C14: in every reachable state, for a handle that has run with an array of
\* objects, 1 and '1', and every such array of the same length:
\* dependenciesChanged answers "changed" exactly when at some index the types
\* differ (1 and '1') or the two are not the same object, whatever the objects
\* hold; when it answers "same" (the same object, mutated or not) perform
\* invokes nothing and changes nothing; when it answers "changed" (two objects
\* holding the same keys) perform goes on to store the new array and to call
\* the stored destroyer or the side effect.
C14_ComparedByTypeAndIdentity ==
    \A h \in DOMAIN effects :
        HasRun(h) =>
            \A deps \in ObjectSnapshots :
                SameLength(effects[h].dependencies, deps) =>
                    LET old == effects[h].dependencies
                        differ == \E i \in DOMAIN old.vals :
                                      ~SameIdentity(old.vals, deps.vals, i)
                    IN /\ DependenciesChanged(old, deps)
                            = (IF differ THEN "changed" ELSE "same")
                       /\ ~differ => EffectPerform(Begin, h, deps) = {Begin}
                       /\ differ =>
                            \A st \in EffectPerform(Begin, h, deps) :
                                /\ st.effects[h].dependencies = deps
                                /\ \/ st.log # <<>>
                                   \/ st.error = "TypeError"

\* a handle that ran with an object and re-ran with another object that holds
\* the same keys, or with another value: its destroyer of the first run was
\* invoked, [p] is stored
C14_Witness ==
    \E h \in DOMAIN effects :
        /\ HasRun(h)
        /\ ran[h] = 2
        /\ thrown = 0
        /\ effects[h].dependencies = Array(<<ObjB>>)
        /\ Destroyer(h, 1) \in DOMAIN called
        /\ called[Destroyer(h, 1)] = 1

---------------------------------------------------------------------------
(* PedlarEffect.perform after destroy *)

\* the handle h has run, the registry has held a destroyer for its id, and
\* destroy(id) or destroyAll() has removed the entry
Destroyed(h) ==
    /\ HasRun(h)
    /\ effects[h].id \notin DOMAIN destroyers
    /\ \E c \in DOMAIN called : c.h = h

\* C15, as claimed: in every reachable state, for a handle whose id has been
\* destroyed, perform(deps) invokes the side effect for no dependency array.
C15_DestroyedHandleNeverRuns ==
    \A h \in DOMAIN effects :
        Destroyed(h) =>
            \A deps \in Snapshots :
                \A st \in EffectPerform(Begin, h, deps) : EffectRuns(st) = {}

\* C16, as claimed: in every reachable state, for a handle whose id has been
\* destroyed, perform(deps) returns for every dependency array, also one that
\* is undefined when an array is stored, or of another length.
C16_DestroyedHandleNeverThrows ==
    \A h \in DOMAIN effects :
        Destroyed(h) =>
            \A deps \in Snapshots :
                \A st \in EffectPerform(Begin, h, deps) :
                    st.outcome = "returned"

---------------------------------------------------------------------------
(* The first run and what the side effect returns *)

\* C17, as claimed: in every reachable state, for a handle that never ran, a
\* perform(deps) whose side effect returns the number 4 throws the error of
\* validateDestroyer and leaves the registry and the handles as they were: the
\* handle still has the id null and no dependencies.
C17_InvalidReturnLeavesStateUnchanged ==
    \A h \in DOMAIN effects :
        ~HasRun(h) =>
            \A deps \in BasicSnapshots :
                \A st \in EffectPerform(Begin, h, deps) :
                    st.ret.kind = "number" =>
                        /\ st.outcome = "threw"
                        /\ st.error = "InvalidEffectReturn"
                        /\ st.destroyers = destroyers
                        /\ st.effects = effects

\* the entries of the log that are invocations for the handle h: of its side
\* effect or of a destroyer it returned
CallsFor(st, h) == {i \in DOMAIN st.log : st.log[i][2] = h}

\* the state in which the operation after the one that ended in st begins
Then(st) ==
    [st EXCEPT !.log = <<>>, !.ret = NoValue, !.outcome = "returned",
               !.error = "none"]

\* C18: in every reachable state, for a handle that never ran (made by
\* create(), or the one Pedlar.perform makes), a first run whose side effect
\* returns undefined or null returns without an error, gives the handle the
\* fresh id and leaves the registry as it was, without an entry for that id;
\* destroy(id) then returns, invokes nothing and changes nothing, and
\* destroyAll() invokes nothing for the handle and can only throw what the
\* entry of another id throws.
C18_AbsentReturnStoresNothing ==
    LET firstRuns ==
            UNION {EffectPerform(Begin, h, deps) :
                       h \in {x \in DOMAIN effects : ~HasRun(x)},
                       deps \in BasicSnapshots}
            \cup UNION {PedlarPerform(Begin, deps) : deps \in BasicSnapshots}
    IN \A st \in firstRuns :
        st.ret.kind \in {"undefined", "null"} =>
            LET h == CHOOSE x \in DOMAIN st.effects :
                         st.effects[x].id = nextId
                id == st.effects[h].id
            IN /\ st.outcome = "returned"
               /\ \E x \in DOMAIN st.effects : st.effects[x].id = nextId
               /\ id # NullId
               /\ \A x \in DOMAIN effects : effects[x].id # id
               /\ st.destroyers = destroyers
               /\ id \notin DOMAIN st.destroyers
               /\ PedlarDestroy(Then(st), id) = {Then(st)}
               /\ \A s2 \in PedlarDestroyAll(Then(st)) :
                    /\ CallsFor(s2, h) = {}
                    /\ s2.outcome = "threw" => DOMAIN destroyers # {}
                    /\ s2.effects = st.effects

\* an effect that ran once and returned no destroyer, so that its id has no
\* entry, next to an effect that is registered
C18_Witness ==
    \E h1, h2 \in DOMAIN effects :
        /\ h1 # h2
        /\ HasRun(h1)
        /\ ran[h1] = 1
        /\ thrown = 0
        /\ effects[h1].id \notin DOMAIN destroyers
        /\ \A c \in DOMAIN called : c.h # h1
        /\ HasRun(h2)
        /\ effects[h2].id \in DOMAIN destroyers

---------------------------------------------------------------------------
(* Pedlar.create, and Pedlar.perform as create followed by perform *)

\* C19: in every reachable state, create() invokes nothing, leaves the
\* registry, the other handles and the id generator as they were, and adds a
\* handle with the id null that has not run; and for every handle that never
\* ran, perform(deps), with an array or without, invokes the side effect once
\* and nothing before it, throws no error of the comparison, and records deps
\* as the dependencies of the handle.
C19_CreateDefersTheFirstRun ==
    /\ LET st == PedlarCreate(Begin)
           h == Len(effects) + 1
       IN /\ st.log = <<>>
          /\ st.outcome = "returned"
          /\ st.destroyers = destroyers
          /\ st.called = called
          /\ st.nextId = nextId
          /\ st.effects = Append(effects, [id |-> NullId, dependencies |-> Absent])
          /\ st.ran = Append(ran, 0)
    /\ \A h \in DOMAIN effects :
         ~HasRun(h) =>
             /\ ran[h] = 0
             /\ \A deps \in BasicSnapshots :
                  \A st \in EffectPerform(Begin, h, deps) :
                      /\ st.log = <<(<<"effect", h, 1>>)>>
                      /\ st.effects[h].dependencies = deps
                      /\ st.effects[h].id = nextId
                      /\ st.error \in {"none", "EffectError", "InvalidEffectReturn"}

\* a handle that was made by create() and ran for the first time, with an
\* array, after a handle made later than it had run: its id is the later one
C19_Witness ==
    \E h1, h2 \in DOMAIN effects :
        /\ h1 < h2
        /\ HasRun(h1) /\ HasRun(h2)
        /\ effects[h1].id > effects[h2].id
        /\ ran[h1] = 1
        /\ effects[h1].dependencies.present

\* C20: in every reachable state and for every dependency array,
\* Pedlar.perform(sideEffect, deps) and create(sideEffect) followed by
\* handle.perform(deps) can end in the same states when they return (the same
\* registry, the same handle with its id assigned and deps stored, the same
\* callbacks invoked in the same order), so that whatever follows behaves the
\* same; when they throw they throw the same error after the same calls and
\* leave the same registry, and only the caller of create() holds a handle.
C20_PerformIsCreateThenPerform ==
    \A deps \in BasicSnapshots :
        LET h == Len(effects) + 1
            viaCreate == EffectPerform(PedlarCreate(Begin), h, deps)
            viaPerform == PedlarPerform(Begin, deps)
            Returned(S) == {st \in S : st.outcome = "returned"}
            Thrown(S) ==
                {<<st.log, st.error, st.destroyers, st.called, st.nextId>> :
                     st \in {x \in S : x.outcome = "threw"}}
        IN /\ Returned(viaPerform) = Returned(viaCreate)
           /\ Thrown(viaPerform) = Thrown(viaCreate)
           /\ \A st \in Returned(viaPerform) :
                /\ Len(st.effects) = h
                /\ st.effects[h] = [id |-> nextId, dependencies |-> deps]

\* two handles that ran once with [1] and own their destroyers; the first was
\* made by create() and ran after the second, which Pedlar.perform or
\* create() made
C20_Witness ==
    \E h1, h2 \in DOMAIN effects :
        /\ h1 < h2
        /\ effects[h1].id > effects[h2].id
        /\ \A h \in {h1, h2} :
            /\ HasRun(h)
            /\ ran[h] = 1
            /\ effects[h].dependencies = Array(<<Num1>>)
            /\ effects[h].id \in DOMAIN destroyers
            /\ destroyers[effects[h].id] = Destroyer(h, 1)

---------------------------------------------------------------------------
(* Pedlar.addEvent and Pedlar.addCustomEvent *)

\* C21: in every reachable state and for all arguments, addEvent and
\* addCustomEvent end in the same states; each returns after exactly one call
\* on the element, addEventListener(eventType, handler, options), with no
\* call of removeEventListener (the model has no call of the handler), and
\* stores the destroyer of the new handle, not invoked; destroy(id) of the
\* returned effect then makes exactly one call,
\* removeEventListener(eventType, handler, options) on the same element with
\* the same three arguments, and removes the entry.
C21_AddEventAddsAndRemovesListener ==
    \A args \in EventArgs :
        /\ PedlarAddEvent(Begin, args) = PedlarAddCustomEvent(Begin, args)
        /\ \A st \in PedlarAddEvent(Begin, args) \cup PedlarAddCustomEvent(Begin, args) :
             LET h == Len(effects) + 1
                 id == nextId
             IN /\ st.outcome = "returned"
                /\ st.dom.calls
                     = Append(dom.calls, ElementCall("addEventListener", args))
                /\ Len(st.effects) = h
                /\ st.effects[h].id = id
                /\ id \in DOMAIN st.destroyers
                /\ st.destroyers[id] = Destroyer(h, 1)
                /\ st.called[Destroyer(h, 1)] = 0
                /\ \A s2 \in PedlarDestroy(Then(st), id) :
                     /\ s2.outcome = "returned"
                     /\ s2.dom.calls
                          = Append(st.dom.calls,
                                   ElementCall("removeEventListener", args))
                     /\ s2.called[Destroyer(h, 1)] = 1
                     /\ id \notin DOMAIN s2.destroyers

\* an event effect with options that was added and destroyed: the element has
\* seen addEventListener and then removeEventListener, with the same arguments
C21_Witness ==
    \E h \in DOMAIN effects :
        /\ h \in DOMAIN dom.args
        /\ dom.args[h].options = "iscool"
        /\ HasRun(h)
        /\ effects[h].id \notin DOMAIN destroyers
        /\ called[Destroyer(h, 1)] = 1
        /\ dom.calls = <<ElementCall("addEventListener", dom.args[h]),
                         ElementCall("removeEventListener", dom.args[h])>>

---------------------------------------------------------------------------
(* What the registry holds *)

\* C22, as claimed: in every reachable state, for a handle whose id owns a
\* function, a perform(deps) in which the side effect returns the number 4
\* throws the error of validateDestroyer, and the number is not stored.
C22_RerunValidatesTheReturn ==
    \A h \in DOMAIN effects :
        (HasRun(h) /\ Lookup(destroyers, effects[h].id).kind = "function") =>
            \A deps \in Snapshots :
                \A st \in EffectPerform(Begin, h, deps) :
                    st.ret.kind = "number" =>
                        /\ st.outcome = "threw"
                        /\ st.error = "InvalidEffectReturn"
                        /\ Lookup(st.destroyers, effects[h].id).kind # "number"

\* C23, as claimed: in every reachable state, every key of the registry is an
\* id that generateId() handed out to a handle that has run, and the value
\* stored under it is a function.
C23_RegistryHoldsOnlyDestroyers ==
    \A id \in DOMAIN destroyers :
        /\ \E h \in DOMAIN effects : HasRun(h) /\ effects[h].id = id
        /\ destroyers[id].kind = "function"

---------------------------------------------------------------------------
(* Exceptions of callbacks *)

\* the operation that ended in st threw what a callback threw, and left the
\* entries of every id but `own` as they were, their destroyers not invoked
CallbackThrowLeavesOthers(st, own) ==
    st.thrown # thrown =>
        /\ st.thrown = thrown + 1
        /\ st.outcome = "threw"
        /\ st.error \in {"EffectError", "DestroyerError"}
        /\ DOMAIN st.destroyers \ {own} = DOMAIN destroyers \ {own}
        /\ \A other \in DOMAIN destroyers \ {own} :
             /\ st.destroyers[other] = destroyers[other]
             /\ destroyers[other].kind = "function" =>
                  st.called[destroyers[other]] = called[destroyers[other]]

\* C24: in every reachable state, when a side effect or a destroyer throws
\* inside Pedlar.perform, handle.perform or destroy(id), the operation throws
\* that exception, and the registry has the same keys and values for every
\* id but the one the operation is about, none of those values invoked.
C24_CallbackExceptionLeavesOtherIds ==
    /\ \A deps \in BasicSnapshots :
         \A st \in PedlarPerform(Begin, deps) :
             CallbackThrowLeavesOthers(st, nextId)
    /\ \A h \in DOMAIN effects, deps \in BasicSnapshots :
         \A st \in EffectPerform(Begin, h, deps) :
             CallbackThrowLeavesOthers(
                 st, IF HasRun(h) THEN effects[h].id ELSE nextId)
    /\ \A id \in DestroyIds :
         \A st \in PedlarDestroy(Begin, id) :
             CallbackThrowLeavesOthers(st, id)

\* a destroyer threw in destroy(id) or in a re-run while another effect is
\* registered: that one's destroyer is stored and was never invoked
C24_Witness ==
    /\ thrown = 1
    /\ \E h1, h2 \in DOMAIN effects :
        /\ h1 # h2
        /\ HasRun(h1) /\ HasRun(h2)
        /\ Destroyer(h1, 1) \in DOMAIN called
        /\ called[Destroyer(h1, 1)] = 1
        /\ Stored(Destroyer(h1, 1))
        /\ Stored(Destroyer(h2, 1))
        /\ called[Destroyer(h2, 1)] = 0

---------------------------------------------------------------------------
(* destroyAll, again *)

\* C25: in every reachable state: when the registry has no keys destroyAll()
\* returns, invokes nothing and changes nothing; after a destroyAll() that
\* returned, a second destroyAll() returns, invokes nothing and changes
\* nothing; and when an effect is performed after a destroyAll() that
\* returned and returns a function, the next destroyAll() invokes that
\* function and nothing else.
C25_DestroyAllIsIdempotent ==
    /\ DOMAIN destroyers = {} => PedlarDestroyAll(Begin) = {Begin}
    /\ \A st \in PedlarDestroyAll(Begin) :
         st.outcome = "returned" =>
            /\ PedlarDestroyAll(Then(st)) = {Then(st)}
            /\ \A s2 \in PedlarPerform(Then(st), Absent) :
                 (s2.outcome = "returned" /\ s2.ret.kind = "function") =>
                    \A s3 \in PedlarDestroyAll(Then(s2)) :
                        s3.log = <<(<<"cleanup", s2.ret.h, s2.ret.k>>)>>

\* an effect was destroyed, by destroyAll() or destroy(id), and an effect
\* performed after that is registered, its destroyer not invoked
C25_Witness ==
    \E h1, h2 \in DOMAIN effects :
        /\ HasRun(h1) /\ HasRun(h2)
        /\ effects[h1].id < effects[h2].id
        /\ thrown = 0
        /\ ran[h1] = 1 /\ ran[h2] = 1
        /\ Destroyer(h1, 1) \in DOMAIN called
        /\ called[Destroyer(h1, 1)] = 1
        /\ DOMAIN destroyers = {effects[h2].id}
        /\ destroyers[effects[h2].id] = Destroyer(h2, 1)
        /\ called[Destroyer(h2, 1)] = 0

---------------------------------------------------------------------------
(* Re-runs: what is stored, and under which id *)

\* C26: in every reachable state, for a handle that has run and whose id has
\* no entry in the registry, perform(deps) invokes nothing or the side effect
\* alone, once; whatever the side effect returns, the registry is as it was,
\* without an entry for the id, and the call throws only if the comparison or
\* the side effect itself threw: a returned number is no error.
C26_RerunWithoutDestroyerIgnoresReturn ==
    \A h \in DOMAIN effects :
        (HasRun(h) /\ effects[h].id \notin DOMAIN destroyers) =>
            \A deps \in Snapshots :
                \A st \in EffectPerform(Begin, h, deps) :
                    /\ st.log \in {<<>>, <<(<<"effect", h, ran[h] + 1>>)>>}
                    /\ st.destroyers = destroyers
                    /\ st.called = called
                    /\ st.ret.kind \in {"undefined", "null", "number", "function"}
                         => st.outcome = "returned"
                    /\ st.outcome = "threw" =>
                         st.error \in {"EffectError",
                                       "InconsistentDependencyUsage",
                                       "DependencyArityMismatch"}

\* a handle that ran twice and never had an entry in the registry: whatever
\* its side effect returned on the re-run was not stored
C26_Witness ==
    \E h \in DOMAIN effects :
        /\ HasRun(h)
        /\ ran[h] = 2
        /\ thrown = 0
        /\ effects[h].dependencies.present
        /\ effects[h].id \notin DOMAIN destroyers
        /\ \A c \in DOMAIN called : c.h # h

\* every element of the array is strictly equal to itself: none is NaN
SelfEqual(a) == \A i \in DOMAIN a.vals : a.vals[i] # NaN

\* perform(a) on the handle h, whose stored array differs from a, takes a as
\* changed: it stores a and goes on to the stored destroyer or the side
\* effect, which runs unless calling the stored value threw
RunsAgainWith(st, h, a) ==
    /\ st.effects[h].dependencies = a
    /\ \/ EffectRuns(st) # {}
       \/ st.outcome = "threw" /\ st.error \in {"DestroyerError", "TypeError"}

\* the arrays a for which perform(a) on the handle h is a change: of the
\* length of the stored array, some element not strictly equal
ChangedArrays(h) ==
    {a \in Snapshots :
        /\ SameLength(effects[h].dependencies, a)
        /\ ~AllStrictlyEqual(effects[h].dependencies.vals, a.vals)}

---------------------------------------------------------------------------
(* The empty dependency array *)

\* C28: in every reachable state, for a handle that has run and stores the
\* empty array: perform([]) invokes nothing and changes nothing; perform()
\* without an array throws the error of inconsistent usage; perform([x]), for
\* every value x, throws the error of mismatched lengths; and both errors
\* leave the state as it was.
C28_EmptyArrayIsAnArray ==
    \A h \in DOMAIN effects :
        (HasRun(h) /\ effects[h].dependencies = Array(<<>>)) =>
            /\ EffectPerform(Begin, h, Array(<<>>)) = {Begin}
            /\ EffectPerform(Begin, h, Absent)
                 = {Throw(Begin, "InconsistentDependencyUsage")}
            /\ \A x \in DepVals :
                 EffectPerform(Begin, h, Array(<<x>>))
                     = {Throw(Begin, "DependencyArityMismatch")}

\* a handle that ran once, with the empty array, and owns its destroyer
C28_Witness ==
    \E h \in DOMAIN effects :
        /\ HasRun(h)
        /\ ran[h] = 1
        /\ effects[h].dependencies = Array(<<>>)
        /\ Lookup(destroyers, effects[h].id) = Destroyer(h, 1)
        /\ called[Destroyer(h, 1)] = 0

---------------------------------------------------------------------------
(* The id of a handle *)

\* C29: in every reachable state: the handles that have run have ids that
\* generateId() handed out, no two the same; every key of the registry is the
\* id of exactly one handle, and a function stored under it is one that
\* handle returned; perform(deps) on a handle that never ran gives it the
\* fresh id; on a handle that has run it leaves the id as it was, takes no
\* new id, and adds no key to the registry; and create, Pedlar.perform,
\* destroy and destroyAll leave the id of every handle as it was.
C29_IdIsAssignedOnce ==
    /\ \A h \in DOMAIN effects :
         HasRun(h) =>
            /\ effects[h].id \in 1..(nextId - 1)
            /\ \A h2 \in DOMAIN effects \ {h} : effects[h2].id # effects[h].id
    /\ \A id \in DOMAIN destroyers :
         /\ Cardinality({h \in DOMAIN effects : effects[h].id = id}) = 1
         /\ destroyers[id].kind = "function" =>
              /\ destroyers[id].h \in DOMAIN effects
              /\ effects[destroyers[id].h].id = id
    /\ \A h \in DOMAIN effects, deps \in BasicSnapshots :
         \A st \in EffectPerform(Begin, h, deps) :
             /\ \A h2 \in DOMAIN effects \ {h} : st.effects[h2] = effects[h2]
             /\ IF HasRun(h)
                THEN /\ st.effects[h].id = effects[h].id
                     /\ st.nextId = nextId
                     /\ DOMAIN st.destroyers = DOMAIN destroyers
                ELSE /\ st.effects[h].id = nextId
                     /\ st.nextId = nextId + 1
                     /\ DOMAIN st.destroyers \subseteq DOMAIN destroyers \cup {nextId}
    /\ \A st \in {PedlarCreate(Begin)}
                  \cup PedlarDestroyAll(Begin)
                  \cup UNION {PedlarDestroy(Begin, id) : id \in DestroyIds}
                  \cup UNION {PedlarPerform(Begin, deps) : deps \in BasicSnapshots} :
         \A h \in DOMAIN effects : st.effects[h] = effects[h]

\* a handle that ran and re-ran: it has the first id, the registry has that
\* one key, and under it the destroyer of the re-run
C29_Witness ==
    \E h \in DOMAIN effects :
        /\ HasRun(h)
        /\ ran[h] = 2
        /\ thrown = 0
        /\ nextId = 2
        /\ DOMAIN destroyers = {effects[h].id}
        /\ destroyers[effects[h].id] = Destroyer(h, 2)

---------------------------------------------------------------------------
(* An error of the comparison *)

\* C30: in every reachable state, for a handle that has run and every
\* dependency array for which dependenciesChanged throws (one of the two
\* undefined, or two arrays of different lengths): perform(deps) throws that
\* error without invoking the stored destroyer or the side effect, and leaves
\* the handle, its stored array and the registry as they were; the next
\* operation begins in the state the failing call began in, so that a
\* following perform, with any array, has the results it would have had.
C30_ComparisonErrorChangesNothing ==
    \A h \in DOMAIN effects :
        HasRun(h) =>
            \A deps \in Snapshots :
                LET changed == DependenciesChanged(effects[h].dependencies, deps)
                IN changed \in {"InconsistentDependencyUsage",
                                "DependencyArityMismatch"} =>
                    \A st \in EffectPerform(Begin, h, deps) :
                        /\ st.outcome = "threw"
                        /\ st.error = changed
                        /\ st.log = <<>>
                        /\ st.effects = effects
                        /\ st.destroyers = destroyers
                        /\ st.called = called
                        /\ Then(st) = Begin
                        /\ \A deps2 \in BasicSnapshots
                                         \cup {effects[h].dependencies} :
                             EffectPerform(Then(st), h, deps2)
                                 = EffectPerform(Begin, h, deps2)

\* a handle that ran once with ['1', 1] and owns its destroyer: perform()
\* and perform([1]) make the comparison throw
C30_Witness ==
    \E h \in DOMAIN effects :
        /\ HasRun(h)
        /\ ran[h] = 1
        /\ thrown = 0
        /\ effects[h].dependencies = Array(<<Str1, Num1>>)
        /\ Lookup(destroyers, effects[h].id) = Destroyer(h, 1)
        /\ called[Destroyer(h, 1)] = 0

---------------------------------------------------------------------------
(* Destroyers that throw *)

\* C31: in every reachable state, for an id whose entry is a function c: a
\* destroy(id) in which c throws ends throwing that exception with the
\* registry as it was, the entry of id included; a following destroy(id)
\* invokes c again, and so does a following destroyAll() that returns.
C31_ThrowingDestroyerStaysRegistered ==
    \A id \in DOMAIN destroyers :
        destroyers[id].kind = "function" =>
            LET c == destroyers[id]
            IN \A st \in PedlarDestroy(Begin, id) :
                st.outcome = "threw" =>
                    /\ st.error = "DestroyerError"
                    /\ st.thrown = thrown + 1
                    /\ st.destroyers = destroyers
                    /\ st.called[c] = called[c] + 1
                    /\ \A s2 \in PedlarDestroy(Then(st), id) :
                         /\ s2.log = <<(<<"cleanup", c.h, c.k>>)>>
                         /\ s2.called[c] = called[c] + 2
                    /\ \A s2 \in PedlarDestroyAll(Then(st)) :
                         s2.outcome = "returned" =>
                            /\ Cardinality(DestroyerCalls(s2, c)) = 1
                            /\ s2.called[c] = called[c] + 2

\* a destroyer that threw when it was first invoked and was invoked a second
\* time, by a destroy that removed its entry
C31_Witness ==
    \E h \in DOMAIN effects :
        /\ HasRun(h)
        /\ ran[h] = 1
        /\ thrown = 1
        /\ Destroyer(h, 1) \in DOMAIN called
        /\ called[Destroyer(h, 1)] = 2
        /\ effects[h].id \notin DOMAIN destroyers

\* the ids whose destroyer the operation that ended in st invoked
InvokedIds(st) ==
    {id \in DOMAIN destroyers :
        /\ destroyers[id].kind = "function"
        /\ DestroyerCalls(st, destroyers[id]) # {}}

\* C32: in every reachable state, a destroyAll() in which a destroyer throws
\* ends throwing that exception; the destroyer that threw is the last call it
\* made and keeps its entry; every destroyer invoked before it was invoked
\* once and its entry is removed; every other entry is as it was, its
\* destroyer not invoked.
C32_DestroyAllStopsAtFirstThrow ==
    \A st \in PedlarDestroyAll(Begin) :
        st.thrown # thrown =>
            /\ st.outcome = "threw"
            /\ st.error = "DestroyerError"
            /\ st.thrown = thrown + 1
            /\ Len(st.log) = Cardinality(InvokedIds(st))
            /\ \A id \in DOMAIN destroyers :
                 LET c == destroyers[id]
                     last == st.log[Len(st.log)]
                 IN IF id \notin InvokedIds(st)
                    THEN /\ id \in DOMAIN st.destroyers
                         /\ st.destroyers[id] = c
                         /\ c.kind = "function" => st.called[c] = called[c]
                    ELSE /\ st.called[c] = called[c] + 1
                         /\ IF last = <<"cleanup", c.h, c.k>>
                            THEN /\ id \in DOMAIN st.destroyers
                                 /\ st.destroyers[id] = c
                            ELSE id \notin DOMAIN st.destroyers

\* two effects whose destroyers were each invoked once: one entry is
\* removed, the other destroyer threw and is still registered
C32_Witness ==
    /\ thrown = 1
    /\ \E h1, h2 \in DOMAIN effects :
        /\ h1 # h2
        /\ HasRun(h1) /\ HasRun(h2)
        /\ ran[h1] = 1 /\ ran[h2] = 1
        /\ Destroyer(h1, 1) \in DOMAIN called
        /\ called[Destroyer(h1, 1)] = 1
        /\ effects[h1].id \notin DOMAIN destroyers
        /\ Lookup(destroyers, effects[h2].id) = Destroyer(h2, 1)
        /\ called[Destroyer(h2, 1)] = 1

---------------------------------------------------------------------------
(* Callbacks that throw during a re-run *)

\* C35, as claimed: in every reachable state, for a handle that has run and
\* every array a that differs from the stored one: a perform(a) that ends
\* throwing (the stored value or the side effect threw) has stored a, and a
\* following perform(a) invokes nothing and changes nothing.
C35_SnapshotStoredBeforeCallbacks ==
    \A h \in DOMAIN effects :
        HasRun(h) =>
            \A a \in ChangedArrays(h) :
                \A st \in EffectPerform(Begin, h, a) :
                    st.outcome = "threw" =>
                        /\ st.effects[h].dependencies = a
                        /\ EffectPerform(Then(st), h, a) = {Then(st)}

\* C35, amended: as above, but the following perform(a) invokes nothing
\* exactly when every element of a is strictly equal to itself; when a holds
\* NaN the following perform(a) is a change again.
C35_SnapshotStoredBeforeCallbacksUnlessNaN ==
    \A h \in DOMAIN effects :
        HasRun(h) =>
            \A a \in ChangedArrays(h) :
                \A st \in EffectPerform(Begin, h, a) :
                    st.outcome = "threw" =>
                        /\ st.effects[h].dependencies = a
                        /\ IF SelfEqual(a)
                           THEN EffectPerform(Then(st), h, a) = {Then(st)}
                           ELSE \A s2 \in EffectPerform(Then(st), h, a) :
                                    RunsAgainWith(s2, h, a)

\* a handle that ran with one array and whose re-run with ['1'] ended when
\* the destroyer of the first run threw: the side effect has run once
C35_Witness ==
    \E h \in DOMAIN effects :
        /\ HasRun(h)
        /\ ran[h] = 1
        /\ thrown = 1
        /\ effects[h].dependencies = Array(<<Str1>>)
        /\ Lookup(destroyers, effects[h].id) = Destroyer(h, 1)
        /\ called[Destroyer(h, 1)] = 1

\* C36: in every reachable state, for a handle whose id holds a function c:
\* a perform in which the side effect throws has invoked c and then the side
\* effect, and leaves the registry as it was, c under the id; a following
\* destroy(id) invokes c again, so does a following destroyAll() that
\* returns, and so does a following perform that gets to the side effect,
\* before it.
C36_EffectThrowKeepsInvokedDestroyer ==
    \A h \in DOMAIN effects :
        (HasRun(h) /\ Lookup(destroyers, effects[h].id).kind = "function") =>
            LET id == effects[h].id
                c == destroyers[id]
                call == <<"cleanup", c.h, c.k>>
            IN \A deps \in BasicSnapshots :
                \A st \in EffectPerform(Begin, h, deps) :
                    st.error = "EffectError" =>
                        /\ st.log = <<call, <<"effect", h, ran[h] + 1>> >>
                        /\ st.called[c] = called[c] + 1
                        /\ st.destroyers = destroyers
                        /\ \A s2 \in PedlarDestroy(Then(st), id) :
                             /\ s2.log = <<call>>
                             /\ s2.called[c] = called[c] + 2
                        /\ \A s2 \in PedlarDestroyAll(Then(st)) :
                             s2.outcome = "returned" =>
                                /\ Cardinality(DestroyerCalls(s2, c)) = 1
                                /\ s2.called[c] = called[c] + 2
                        /\ \A d2 \in BasicSnapshots :
                             \A s2 \in EffectPerform(Then(st), h, d2) :
                                EffectRuns(s2) # {} =>
                                    /\ s2.log[1] = call
                                    /\ s2.called[c] = called[c] + 2

\* a handle whose side effect threw in its re-run: the destroyer of the first
\* run has been invoked twice, the second time by a destroy that removed it
C36_Witness ==
    \E h \in DOMAIN effects :
        /\ HasRun(h)
        /\ ran[h] = 2
        /\ thrown = 1
        /\ Destroyer(h, 1) \in DOMAIN called
        /\ called[Destroyer(h, 1)] = 2
        /\ effects[h].id \notin DOMAIN destroyers

---------------------------------------------------------------------------
(* The life of a destroyer when no callback throws *)

\* the number of invocations of the destroyers that the runs of handle h
\* returned
CleanupCalls(h) ==
    SumSeq([k \in 1..ran[h] |->
               IF Destroyer(h, k) \in DOMAIN called
               THEN called[Destroyer(h, k)] ELSE 0])

\* in the log of one operation every invocation of a destroyer is that of a
\* function an earlier operation stored, made once, and precedes every run of
\* the side effect of its handle
CleanupsPrecedeRuns(st) ==
    \A i \in DOMAIN st.log :
        st.log[i][1] = "cleanup" =>
            LET c == Destroyer(st.log[i][2], st.log[i][3])
            IN /\ Stored(c)
               /\ c.k <= ran[c.h]
               /\ DestroyerCalls(st, c) = {i}
               /\ \A j \in EffectRuns(st) :
                    st.log[j][2] = c.h => i < j /\ c.k < st.log[j][3]

\* C37: in every reachable state in which no callback has thrown: every
\* function the registry has held was returned by a run its handle has made
\* and has been invoked at most once; one that has not been invoked is the
\* one of the latest run of its handle, so that the functions of earlier runs
\* were invoked before the runs that followed; no handle has more invocations
\* of its destroyers than runs of its side effect; and every operation in
\* which no callback throws invokes stored destroyers only, once each, before
\* any run of the side effect it makes for the same handle.
C37_DestroyerInvokedAtMostOnceInOrder ==
    thrown = 0 =>
        /\ \A c \in DOMAIN called :
             /\ c.h \in DOMAIN ran
             /\ c.k \in 1..ran[c.h]
             /\ called[c] <= 1
             /\ called[c] = 0 => (c.k = ran[c.h] /\ Stored(c))
             /\ Stored(c) => called[c] = 0
        /\ \A h \in DOMAIN ran : CleanupCalls(h) <= ran[h]
        /\ \A deps \in BasicSnapshots :
             /\ \A st \in PedlarPerform(Begin, deps) :
                  st.thrown = 0 => CleanupsPrecedeRuns(st)
             /\ \A h \in DOMAIN effects :
                  \A st \in EffectPerform(Begin, h, deps) :
                      st.thrown = 0 => CleanupsPrecedeRuns(st)
        /\ \A id \in DestroyIds :
             \A st \in PedlarDestroy(Begin, id) :
                 st.thrown = 0 => CleanupsPrecedeRuns(st)
        /\ \A st \in PedlarDestroyAll(Begin) :
             st.thrown = 0 => CleanupsPrecedeRuns(st)

\* no callback has thrown and a handle has run twice: the destroyer of each
\* run has been invoked once, the first by the re-run and the second by a
\* destroy, as many invocations as runs
C37_Witness ==
    /\ thrown = 0
    /\ \E h \in DOMAIN effects :
        /\ HasRun(h)
        /\ ran[h] = 2
        /\ {Destroyer(h, 1), Destroyer(h, 2)} \subseteq DOMAIN called
        /\ called[Destroyer(h, 1)] = 1
        /\ called[Destroyer(h, 2)] = 1
        /\ CleanupCalls(h) = 2
        /\ effects[h].id \notin DOMAIN destroyers

---------------------------------------------------------------------------
(* Destroyers that call back into the Pedlar *)

\* the destroyer c calls destroy on its own id, the first time it is invoked
\* and not yet invoked
DestroysItselfOnce(c) ==
    /\ c.h \in DOMAIN scripts
    /\ scripts[c.h].does = "destroySelfOnce"
    /\ called[c] = 0

\* C33: in every reachable state, for every destroyAll(), whatever the
\* destroyers it invokes do inside: when it returns, every id that held a
\* function when it was called is removed and its destroyer was invoked
\* once by then, also when another destroyer destroyed the id during the pass
\* (twice when the destroyer destroys its own id from inside itself, which is
\* the nested call of C34); an id that was registered during the pass and
\* is in the registry at the end holds a function that has not been invoked;
\* and an effect that a destroyer performed during the pass and that returned
\* a function is registered at the end, unless a destroyer of the pass
\* destroys the id of that very handle.
C33_DestroyAllWorksOnKeysAtCall ==
    \A st \in PedlarDestroyAll(Begin) :
      st.outcome = "returned" =>
        /\ \A id \in DOMAIN destroyers :
             LET c == destroyers[id]
             IN IF c.kind = "function"
                THEN /\ id \notin DOMAIN st.destroyers
                     /\ st.called[c] = called[c]
                            + (IF DestroysItselfOnce(c) THEN 2 ELSE 1)
                ELSE Lookup(st.destroyers, id) = c
        /\ \A id \in DOMAIN st.destroyers \ DOMAIN destroyers :
             LET c == st.destroyers[id]
             IN /\ c.kind = "function"
                /\ c \notin DOMAIN called
                /\ st.called[c] = 0
                /\ DestroyerCalls(st, c) = {}
        /\ \A h \in DOMAIN st.effects \ DOMAIN effects :
             (/\ Destroyer(h, 1) \in DOMAIN st.called
              /\ \A g \in DOMAIN scripts :
                    ~(scripts[g].does = "destroy" /\ scripts[g].target = h))
             => /\ Lookup(st.destroyers, st.effects[h].id) = Destroyer(h, 1)
                /\ st.called[Destroyer(h, 1)] = 0

\* a destroyer that performs a side effect has been invoked and its id is
\* removed; the effect it performed is registered, its destroyer not invoked
C33_Witness ==
    /\ thrown = 0
    /\ \E h, h2 \in DOMAIN effects :
        /\ h \in DOMAIN scripts
        /\ scripts[h].does = "perform"
        /\ ran[h] = 1
        /\ called[Destroyer(h, 1)] = 1
        /\ effects[h].id \notin DOMAIN destroyers
        /\ h2 > h
        /\ h2 \notin DOMAIN scripts
        /\ ran[h2] = 1
        /\ Lookup(destroyers, effects[h2].id) = Destroyer(h2, 1)
        /\ called[Destroyer(h2, 1)] = 0

\* C34: in every reachable state, for an id whose entry is a destroyer c
\* that calls back into the Pedlar, destroy(id) ends as follows.  When c
\* destroys its own id the first time it is invoked: the nested destroy finds
\* the entry and invokes c again, so c is invoked twice and the id is
\* removed.  When c destroys its own id every time: every nested destroy
\* invokes c again, as often as the call stack has room for, and the call
\* ends with the stack overflow, the entry still there.  When c calls
\* destroyAll() every time: the call never returns normally and the entry is
\* still there, and if id is the only key c is invoked as often as the call
\* stack has room for.
C34_EntryStaysWhileDestroyerRuns ==
    \A id \in DOMAIN destroyers :
        LET c == destroyers[id]
        IN (c.kind = "function" /\ c.h \in DOMAIN scripts) =>
            LET script == scripts[c.h]
                call == <<"cleanup", c.h, c.k>>
                nest == [i \in 1..MaxDepth |-> call]
            IN \A st \in PedlarDestroy(Begin, id) :
                /\ DestroysItselfOnce(c) =>
                     /\ st.outcome = "returned"
                     /\ st.log = <<call, call>>
                     /\ st.called[c] = 2
                     /\ st.destroyers = Delete(destroyers, id)
                /\ (script.does = "destroy" /\ script.target = c.h) =>
                     /\ st.outcome = "threw"
                     /\ st.error = "RangeError"
                     /\ st.log = nest
                     /\ st.called[c] = called[c] + MaxDepth
                     /\ st.destroyers = destroyers
                /\ script.does = "destroyAll" =>
                     /\ st.outcome = "threw"
                     /\ Lookup(st.destroyers, id) = c
                     /\ DOMAIN destroyers = {id} =>
                          /\ st.error = "RangeError"
                          /\ st.log = nest
                          /\ st.destroyers = destroyers

\* a destroyer that destroyed its own id the first time it was invoked: it
\* has been invoked twice and its id is removed; and a destroyer that
\* destroys its own id every time: it has been invoked as often as the call
\* stack has room for and its id is still registered
C34_Witness ==
    \E h1, h2 \in DOMAIN scripts :
        /\ scripts[h1].does = "destroySelfOnce"
        /\ ran[h1] = 1
        /\ called[Destroyer(h1, 1)] = 2
        /\ effects[h1].id \notin DOMAIN destroyers
        /\ scripts[h2] = [does |-> "destroy", target |-> h2]
        /\ ran[h2] = 1
        /\ called[Destroyer(h2, 1)] = MaxDepth
        /\ Lookup(destroyers, effects[h2].id) = Destroyer(h2, 1)

====
